---- MODULE Spec2Model ----
(***************************************************************************)
(* Model of the keytos_ezca_ssl_leaf_cert resource of the Keytos Terraform *)
(* provider (internal/provider/ezca_ssl_leaf_cert_resource.go): the        *)
(* Create / Read / Update / Delete handlers, buildSignOptions, the renewal *)
(* clock, saveCertificate and requireNewCertificate, run against a         *)
(* signing service whose Sign and Revoke calls may fail.                   *)
(*                                                                         *)
(* Time is counted in whole hours.  Attribute values carry the tri-state   *)
(* of the plugin framework (known / null / unknown).                       *)
(***************************************************************************)
EXTENDS Integers, Sequences, FiniteSets, TLC

VARIABLES
    state,      \* persisted resource state: <<>> (absent) or <<model>>
    now,        \* wall clock, time.Now(), in hours
    serial,     \* number of certificates the signing service has issued
    last        \* the handler invocation whose response is being returned

vars == <<state, now, serial, last>>

(***************************************************************************)
(* Bounds of the model.                                                    *)
(***************************************************************************)
MaxTime  == 4      \* the clock runs over 0 .. MaxTime
MaxCerts == 3      \* the signing service issues at most MaxCerts certificates
MaxSignLatency == 1 \* hours a Sign call may take

(***************************************************************************)
(* Framework attribute values: types.String, types.List, types.Object,     *)
(* types.Bool.  Null and unknown carry a canonical payload so that record  *)
(* equality is the framework's Equal.                                      *)
(***************************************************************************)
StringValue(s) == [k |-> "known", v |-> s]
StringNull     == [k |-> "null", v |-> ""]
StringUnknown  == [k |-> "unknown", v |-> ""]

ListValue(l) == [k |-> "known", v |-> l]
ListNull     == [k |-> "null", v |-> <<>>]
ListUnknown  == [k |-> "unknown", v |-> <<>>]

BoolValue(b) == [k |-> "known", v |-> b]
BoolUnknown  == [k |-> "unknown", v |-> FALSE]

IsUnknown(a) == a.k = "unknown"
IsNull(a)    == a.k = "null"

\* ValueString returns "" for null and unknown
ValueString(a) == IF a.k = "known" THEN a.v ELSE ""

\* Elements returns no elements for null and unknown
Elements(a) == IF a.k = "known" THEN a.v ELSE <<>>

\* basetypes.StringValue.String(): the quoted value, or a marker
StringString(a) ==
    IF a.k = "known" THEN "\"" \o a.v \o "\""
    ELSE IF a.k = "null" THEN "<null>" ELSE "<unknown>"

\* SubjectNameAttributeModel
SubjectNameNullAttrs ==
    [common_name |-> StringNull, country |-> ListNull, organization |-> ListNull,
     organizational_unit |-> ListNull, locality |-> ListNull, province |-> ListNull,
     street_address |-> ListNull, postal_code |-> ListNull]

\* SubjectAlternativeNamesAttributeModel
SanNullAttrs ==
    [dns_names |-> ListNull, email_addresses |-> ListNull,
     ip_addresses |-> ListNull, uris |-> ListNull]

ObjectValue(attrs) == [k |-> "known", v |-> attrs]
SubjectNameObjectNull    == [k |-> "null", v |-> SubjectNameNullAttrs]
SubjectNameObjectUnknown == [k |-> "unknown", v |-> SubjectNameNullAttrs]
SanObjectNull    == [k |-> "null", v |-> SanNullAttrs]
SanObjectUnknown == [k |-> "unknown", v |-> SanNullAttrs]

\* types.Object.As(ctx, &struct, ObjectAsOptions{}): a null or unknown object
\* cannot be stored in a plain struct and yields an error diagnostic
ObjectAs(o) == [ok |-> o.k = "known", v |-> o.v]

(***************************************************************************)
(* Parsers of the standard library, tabulated over the strings the model   *)
(* feeds them.                                                             *)
(***************************************************************************)
\* time.ParseDuration, result in hours; the zero duration on error
ParseDuration(s) ==
    CASE s = "0"      -> [ok |-> TRUE, d |-> 0]
      [] s = "1h"     -> [ok |-> TRUE, d |-> 1]
      [] s = "2h"     -> [ok |-> TRUE, d |-> 2]
      [] s = "2h0m0s" -> [ok |-> TRUE, d |-> 2]
      [] s = "3h"     -> [ok |-> TRUE, d |-> 3]
      [] s = "-1h"    -> [ok |-> TRUE, d |-> 0 - 1]
      [] OTHER        -> [ok |-> FALSE, d |-> 0]

AuthorityA == "00000000-0000-0000-0000-100000000000"
AuthorityB == "00000000-0000-0000-0000-100000000001"
TemplateT  == "00000000-0000-0000-0000-200000000000"

\* uuid.Parse
UuidParse(s) == [ok |-> s \in {AuthorityA, AuthorityB, TemplateT}, id |-> s]

\* pem.Decode: the first block of the input, if any
PemDecode(s) ==
    CASE s = "CSR-A-PEM"       -> [ok |-> TRUE, type |-> "CERTIFICATE REQUEST", bytes |-> "csr-a-der"]
      [] s = "CSR-B-PEM"       -> [ok |-> TRUE, type |-> "CERTIFICATE REQUEST", bytes |-> "csr-b-der"]
      [] s = "PRIVATE-KEY-PEM" -> [ok |-> TRUE, type |-> "PRIVATE KEY", bytes |-> "key-der"]
      [] OTHER                 -> [ok |-> FALSE, type |-> "", bytes |-> ""]

\* net.ParseIP: nil for a string that is no IP address
ParseIP(s) == [ok |-> s \in {"10.0.0.1", "::1"}, ip |-> s]

\* url.Parse
UrlParse(s) == [ok |-> s \in {"https://test.com/a", "spiffe://test/b"}, url |-> s]

\* time.Time.Format(time.RFC3339) and time.Parse(time.RFC3339, s)
FormatRFC3339(t) == "T" \o ToString(t) \o ":00:00Z"
Times == 0 .. (MaxTime + 3)
\* mutant: a string that is no timestamp parses as the zero time
ParseRFC3339Lenient(s) ==
    IF \E t \in Times : FormatRFC3339(t) = s
    THEN [ok |-> TRUE, t |-> CHOOSE t \in Times : FormatRFC3339(t) = s]
    ELSE [ok |-> TRUE, t |-> 0]

ParseRFC3339(s) ==
    IF \E t \in Times : FormatRFC3339(t) = s
    THEN [ok |-> TRUE, t |-> CHOOSE t \in Times : FormatRFC3339(t) = s]
    ELSE [ok |-> FALSE, t |-> 0]

(***************************************************************************)
(* Diagnostics: the error summaries added so far, in order.                *)
(***************************************************************************)
HasError(diags) == Len(diags) > 0
AddError(diags, summary) == Append(diags, summary)

(***************************************************************************)
(* pkix.Name.String(): the RDNs in reverse order of ToRDNSequence, the     *)
(* values of one attribute type joined into one multi-valued RDN.          *)
(***************************************************************************)
RECURSIVE JoinStrings(_, _)
JoinStrings(l, sep) ==
    IF Len(l) = 0 THEN ""
    ELSE IF Len(l) = 1 THEN l[1]
    ELSE l[1] \o sep \o JoinStrings(Tail(l), sep)

Rdn(type, vals) == JoinStrings([i \in 1 .. Len(vals) |-> type \o "=" \o vals[i]], "+")

\* (the backslashes that escape special characters are not rendered)
PkixNameString(sn) ==
    LET rdns == << IF sn.CommonName = "" THEN <<>> ELSE <<sn.CommonName>>,
                   sn.OrganizationalUnit, sn.Organization, sn.PostalCode,
                   sn.StreetAddress, sn.Locality, sn.Province, sn.Country >>
        types == << "CN", "OU", "O", "POSTALCODE", "STREET", "L", "ST", "C" >>
        parts == SelectSeq([i \in 1 .. 8 |-> Rdn(types[i], rdns[i])], LAMBDA x : x # "")
    IN  JoinStrings(parts, ",")

(***************************************************************************)
(* ezca.SignOptions.  A Go slice that was never assigned is nil.           *)
(***************************************************************************)
NilSlice == [nil |-> TRUE, v |-> <<>>]
Slice(l) == [nil |-> FALSE, v |-> l]

EmptySignOptions ==
    [SourceTag |-> "keytos terraform provider", Duration |-> 0,
     KeyUsages |-> NilSlice, ExtendedKeyUsages |-> NilSlice, SubjectName |-> "",
     DNSNames |-> NilSlice, EmailAddresses |-> NilSlice,
     IPAddresses |-> NilSlice, URIs |-> NilSlice]

DefaultKeyUsages         == ListValue(<<"KeyEncipherment", "DigitalSignature">>)
DefaultExtendedKeyUsages == ListValue(<<"ServerAuth", "ClientAuth">>)

(***************************************************************************)
(* buildSignOptions, one operator per block of the function.  A context c  *)
(* holds the model m (filled in place), the options built so far, the      *)
(* diagnostics, and ret = TRUE once the function has returned nil.         *)
(***************************************************************************)
BsoDuration(c) ==
    LET p == ParseDuration(ValueString(c.m.validity_period))
    IN  IF ~p.ok
        THEN [c EXCEPT !.diags = AddError(@, "Invalid Duration String"), !.ret = TRUE]
        ELSE [c EXCEPT !.opts.Duration = p.d]

\* mutant: an empty list is taken for an unset one
BsoKeyUsagesEmptyIsUnset(c) ==
    IF c.ret THEN c
    ELSE IF ~IsUnknown(c.m.key_usages) /\ Len(Elements(c.m.key_usages)) > 0
    THEN [c EXCEPT !.opts.KeyUsages = Slice(Elements(c.m.key_usages))]
    ELSE [c EXCEPT !.m.key_usages = DefaultKeyUsages]

BsoKeyUsages(c) ==
    IF c.ret THEN c
    ELSE IF ~IsUnknown(c.m.key_usages)
    THEN [c EXCEPT !.opts.KeyUsages = Slice(Elements(c.m.key_usages))]
    ELSE [c EXCEPT !.m.key_usages = DefaultKeyUsages]

BsoExtendedKeyUsages(c) ==
    IF c.ret THEN c
    ELSE IF ~IsUnknown(c.m.extended_key_usages)
    THEN [c EXCEPT !.opts.ExtendedKeyUsages = Slice(Elements(c.m.extended_key_usages))]
    ELSE [c EXCEPT !.m.extended_key_usages = DefaultExtendedKeyUsages]

BsoSubjectName(c) ==
    IF c.ret THEN c
    ELSE IF ~IsUnknown(c.m.overwrite_subject_name)
    THEN LET as == ObjectAs(c.m.overwrite_subject_name)
             diags == IF as.ok THEN c.diags
                      ELSE AddError(c.diags, "Value Conversion Error")
             snm == as.v
             sn == [CommonName |-> StringString(snm.common_name),
                    Country |-> Elements(snm.country),
                    Organization |-> Elements(snm.organization),
                    OrganizationalUnit |-> Elements(snm.organizational_unit),
                    Locality |-> Elements(snm.locality),
                    Province |-> Elements(snm.province),
                    StreetAddress |-> Elements(snm.street_address),
                    PostalCode |-> Elements(snm.postal_code)]
         IN  IF HasError(diags)
             THEN [c EXCEPT !.diags = diags, !.ret = TRUE]
             ELSE [c EXCEPT !.opts.SubjectName = PkixNameString(sn)]
    ELSE [c EXCEPT !.m.overwrite_subject_name = SubjectNameObjectNull]

\* mutant: the string variant silently replaces the structured one
BsoSubjectNameStrOverrides(c) ==
    IF c.ret THEN c
    ELSE IF ~IsUnknown(c.m.overwrite_subject_name_str)
    THEN [c EXCEPT !.opts.SubjectName = ValueString(c.m.overwrite_subject_name_str)]
    ELSE [c EXCEPT !.m.overwrite_subject_name_str = StringNull]

BsoSubjectNameStr(c) ==
    IF c.ret THEN c
    ELSE IF ~IsUnknown(c.m.overwrite_subject_name_str)
    THEN IF c.opts.SubjectName # ""
         THEN [c EXCEPT !.diags = AddError(@, "Invalid Overwrite Subject Name"),
                        !.ret = TRUE]
         ELSE [c EXCEPT !.opts.SubjectName = ValueString(c.m.overwrite_subject_name_str)]
    ELSE [c EXCEPT !.m.overwrite_subject_name_str = StringNull]

\* the loops over ip_addresses and uris: r = [out, diags]
\* mutant: the loop over ip_addresses ends at the first unparsable entry
ParseIPsStopAtFirstError(l, r) ==
    LET bad == {i \in 1 .. Len(l) : ~ParseIP(l[i]).ok}
        first == IF bad = {} THEN Len(l) + 1 ELSE CHOOSE i \in bad : \A j \in bad : i <= j
    IN  [out |-> [i \in 1 .. (first - 1) |-> ParseIP(l[i]).ip],
         diags |-> IF bad = {} THEN r.diags
                   ELSE AddError(r.diags, "Invalid Subject Alternative Name")]

RECURSIVE ParseIPs(_, _)
ParseIPs(l, r) ==
    IF Len(l) = 0 THEN r
    ELSE LET ip == ParseIP(l[1])
         IN  ParseIPs(Tail(l),
                 IF ~ip.ok
                 THEN [r EXCEPT !.diags = AddError(@, "Invalid Subject Alternative Name")]
                 ELSE [r EXCEPT !.out = Append(@, ip.ip)])

RECURSIVE ParseURIs(_, _)
ParseURIs(l, r) ==
    IF Len(l) = 0 THEN r
    ELSE LET uri == UrlParse(l[1])
         IN  ParseURIs(Tail(l),
                 IF ~uri.ok
                 THEN [r EXCEPT !.diags = AddError(@, "Invalid Subject Alternative Name")]
                 ELSE [r EXCEPT !.out = Append(@, uri.url)])

BsoSubjectAlternativeNames(c) ==
    IF c.ret THEN c
    ELSE IF ~IsUnknown(c.m.additional_subject_alternative_names)
    THEN LET as == ObjectAs(c.m.additional_subject_alternative_names)
             sanm == as.v
             ips  == ParseIPs(Elements(sanm.ip_addresses), [out |-> <<>>, diags |-> c.diags])
             uris == ParseURIs(Elements(sanm.uris), [out |-> <<>>, diags |-> ips.diags])
         IN  IF ~as.ok
             THEN [c EXCEPT !.diags = AddError(@, "Invalid Subject Alternative Names"),
                            !.ret = TRUE]
             ELSE [c EXCEPT !.opts.DNSNames = Slice(Elements(sanm.dns_names)),
                            !.opts.EmailAddresses = Slice(Elements(sanm.email_addresses)),
                            !.opts.IPAddresses = Slice(ips.out),
                            !.opts.URIs = Slice(uris.out),
                            !.diags = uris.diags]
    ELSE [c EXCEPT !.m.additional_subject_alternative_names = SanObjectNull]

\* buildSignOptions(ctx, m, diags): [m, opts, diags, ret]; ret = TRUE is a nil result
buildSignOptions(m, diags) ==
    BsoSubjectAlternativeNames(BsoSubjectNameStr(BsoSubjectName(
        BsoExtendedKeyUsages(BsoKeyUsages(BsoDuration(
            [m |-> m, opts |-> EmptySignOptions, diags |-> diags, ret |-> FALSE]))))))

(***************************************************************************)
(* csr: the DER of the first PEM block, which must be a certificate        *)
(* request.                                                                *)
(***************************************************************************)
\* mutant: the type of the PEM block is not looked at
csrAnyBlock(s) ==
    LET b == PemDecode(s)
    IN  IF ~b.ok THEN [ok |-> FALSE, bytes |-> "", err |-> "no valid PEM block passed as certificate request"]
        ELSE [ok |-> TRUE, bytes |-> b.bytes, err |-> ""]

csr(s) ==
    LET b == PemDecode(s)
    IN  IF ~b.ok THEN [ok |-> FALSE, bytes |-> "", err |-> "no valid PEM block passed as certificate request"]
        ELSE IF b.type # "CERTIFICATE REQUEST"
        THEN [ok |-> FALSE, bytes |-> "", err |-> "passed PEM block is not of certificate request type"]
        ELSE [ok |-> TRUE, bytes |-> b.bytes, err |-> ""]

(***************************************************************************)
(* sslAuthorityClient: a client bound to the authority and template of the *)
(* model, or an error when either identifier is no UUID.                   *)
(***************************************************************************)
sslAuthorityClient(data) ==
    LET a == UuidParse(ValueString(data.authority_id))
        t == UuidParse(ValueString(data.template_id))
    IN  [ok |-> a.ok /\ t.ok, authority |-> a.id, template |-> t.id]

(***************************************************************************)
(* The renewal clock: notAfter.Add(-earlyRenewalPeriod).Before(time.Now()) *)
(***************************************************************************)
\* mutants of the renewal clock: the boundary instant counts as ready; the
\* early renewal period is ignored; always ready
readyForRenewalAtBoundary(notAfter, earlyRenewalPeriod, timeNow) ==
    notAfter - earlyRenewalPeriod <= timeNow

readyForRenewalExpiredOnly(notAfter, earlyRenewalPeriod, timeNow) ==
    notAfter < timeNow

readyForRenewalAlways(notAfter, earlyRenewalPeriod, timeNow) == TRUE

readyForRenewal(notAfter, earlyRenewalPeriod, timeNow) ==
    notAfter - earlyRenewalPeriod < timeNow

(***************************************************************************)
(* Certificates.  The signing service numbers the certificates it issues;  *)
(* the number stands for the raw DER.  A certificate is valid from the     *)
(* time of the request for the requested duration.                         *)
(***************************************************************************)
Certificate(n, issuedAt, opts) ==
    [Raw |-> n, SerialNumber |-> n, NotBefore |-> issuedAt,
     NotAfter |-> issuedAt + opts.Duration]

\* sha1.Sum(cert.Raw): a 20-byte digest, one per certificate
Sha1Sum(raw) == [digest |-> raw, n |-> 20]

\* hex.EncodeToString and hex.DecodeString
HexEncodeToString(b) == "sha1:" \o ToString(b.digest)
\* hex strings that are no SHA-1 digest: two hex digits appended to the
\* digest of certificate n (21 bytes), and a two-byte string
LongThumbprint(n) == HexEncodeToString(Sha1Sum(n)) \o "ff"
ShortThumbprint == "abcd"

HexDecodeString(s) ==
    IF \E n \in 1 .. (MaxCerts + 1) : HexEncodeToString(Sha1Sum(n)) = s
    THEN [ok |-> TRUE,
          bytes |-> Sha1Sum(CHOOSE n \in 1 .. (MaxCerts + 1) : HexEncodeToString(Sha1Sum(n)) = s)]
    ELSE IF \E n \in 1 .. (MaxCerts + 1) : LongThumbprint(n) = s
    THEN [ok |-> TRUE,
          bytes |-> [digest |-> CHOOSE n \in 1 .. (MaxCerts + 1) : LongThumbprint(n) = s,
                     n |-> 21]]
    ELSE IF s = ShortThumbprint
    THEN [ok |-> TRUE, bytes |-> [digest |-> 0, n |-> 2]]
    ELSE [ok |-> FALSE, bytes |-> [digest |-> 0, n |-> 0]]

\* pem.EncodeToMemory of a CERTIFICATE block
PemEncodeCertificate(raw) == "CERTIFICATE-PEM:" \o ToString(raw)

\* mutant: the PEM of the previous certificate is kept
saveCertificateKeepsPem(m, cert, erp, timeNow) ==
    [m EXCEPT
        !.cert_thumbprint_hex = StringValue(HexEncodeToString(Sha1Sum(cert.Raw))),
        !.cert_serial_number = StringValue(ToString(cert.SerialNumber)),
        !.validity_not_before = StringValue(FormatRFC3339(cert.NotBefore)),
        !.validity_not_after = StringValue(FormatRFC3339(cert.NotAfter)),
        !.ready_for_renewal = BoolValue(readyForRenewal(cert.NotAfter, erp, timeNow))]

saveCertificate(m, cert, erp, timeNow) ==
    [m EXCEPT
        !.cert_pem = StringValue(PemEncodeCertificate(cert.Raw)),
        !.cert_thumbprint_hex = StringValue(HexEncodeToString(Sha1Sum(cert.Raw))),
        !.cert_serial_number = StringValue(ToString(cert.SerialNumber)),
        !.validity_not_before = StringValue(FormatRFC3339(cert.NotBefore)),
        !.validity_not_after = StringValue(FormatRFC3339(cert.NotAfter)),
        !.ready_for_renewal = BoolValue(readyForRenewal(cert.NotAfter, erp, timeNow))]

\* mutant: the validity period is left out of the comparison
requireNewCertificateNoValidity(left, right) ==
    \/ left.authority_id # right.authority_id
    \/ left.template_id # right.template_id
    \/ left.cert_request_pem # right.cert_request_pem
    \/ left.key_usages # right.key_usages
    \/ left.extended_key_usages # right.extended_key_usages
    \/ left.overwrite_subject_name # right.overwrite_subject_name
    \/ left.overwrite_subject_name_str # right.overwrite_subject_name_str
    \/ left.additional_subject_alternative_names # right.additional_subject_alternative_names

requireNewCertificate(left, right) ==
    \/ left.authority_id # right.authority_id
    \/ left.template_id # right.template_id
    \/ left.cert_request_pem # right.cert_request_pem
    \/ left.validity_period # right.validity_period
    \/ left.key_usages # right.key_usages
    \/ left.extended_key_usages # right.extended_key_usages
    \/ left.overwrite_subject_name # right.overwrite_subject_name
    \/ left.overwrite_subject_name_str # right.overwrite_subject_name_str
    \/ left.additional_subject_alternative_names # right.additional_subject_alternative_names

(***************************************************************************)
(* Calls to the signing service.  env holds what the service answers       *)
(* during one handler: revokeOk, signOk, and latency, the hours a          *)
(* successful Sign takes.  n is the number of certificates issued before.  *)
(* Both calls take the handler's context: env.cancel names the call during *)
(* which the caller cancels it ("none", "revoke", "sign"); that call and   *)
(* every later call on the cancelled context return an error.              *)
(***************************************************************************)
RevokeCall(c, thumb, env) ==
    [fn |-> "Revoke", authority |-> c.authority, template |-> c.template,
     thumb |-> thumb.digest, opts |-> EmptySignOptions, csr |-> "",
     ok |-> env.revokeOk /\ env.cancel # "revoke"]

\* mutant: Sign is called on a fresh context instead of the handler's
SignCallFreshContext(c, csrDer, opts, env) ==
    [fn |-> "Sign", authority |-> c.authority, template |-> c.template,
     thumb |-> 0, opts |-> opts, csr |-> csrDer, ok |-> env.signOk]

SignCall(c, csrDer, opts, env) ==
    [fn |-> "Sign", authority |-> c.authority, template |-> c.template,
     thumb |-> 0, opts |-> opts, csr |-> csrDer,
     ok |-> env.signOk /\ env.cancel = "none"]

\* mutant: the error Sign returns is not checked
SignErrorIgnored(sign) == FALSE

\* the check of the error Sign returns: if err != nil { AddError; return }
SignError(sign) == ~sign.ok

\* mutant: the new certificate is requested before the old one is revoked
SignThenRevoke(revoke, sign) == <<sign, revoke>>

\* Update calls RevokeWithThumbprint, waits for it to return, then calls Sign
RevokeThenSign(revoke, sign) == <<revoke, sign>>

\* mutant: an early renewal period longer than the validity is let through
InvalidEarlyRenewalPeriodIgnored(erp, duration) == FALSE

\* mutant: the comparison tolerates one hour too many
InvalidEarlyRenewalPeriodOffByOne(erp, duration) == erp > duration + 1

\* the check of Create and Update: if erp > signOptions.Duration { AddError; return }
InvalidEarlyRenewalPeriod(erp, duration) == erp > duration

\* what a handler leaves behind: the model it passed to State.Set (wrote),
\* the service calls it made, its diagnostics, the branch it took, the
\* hours it ran, and whether it panicked
Response(m, wrote, calls, diags, path, elapsed) ==
    [m |-> m, wrote |-> wrote, calls |-> calls, diags |-> diags, path |-> path,
     elapsed |-> elapsed, panic |-> FALSE]

Panic(m, calls, diags, path) ==
    [m |-> m, wrote |-> FALSE, calls |-> calls, diags |-> diags, path |-> path,
     elapsed |-> 0, panic |-> TRUE]

(***************************************************************************)
(* Create                                                                  *)
(***************************************************************************)
Create(plan, env, n, timeNow) ==
    LET c == sslAuthorityClient(plan)
        req == csr(ValueString(plan.cert_request_pem))
        b == buildSignOptions(plan, <<>>)
        p == ParseDuration(ValueString(b.m.early_renewal_period))
        erp == IF ~IsUnknown(b.m.early_renewal_period) THEN p.d ELSE 0
        data == IF ~IsUnknown(b.m.early_renewal_period) THEN b.m
                ELSE [b.m EXCEPT !.early_renewal_period = StringNull]
        sign == SignCall(c, req.bytes, b.opts, env)
        cert == Certificate(n + 1, timeNow, b.opts)
    IN  IF ~c.ok
        THEN Response(plan, FALSE, <<>>, <<"Error creating SSL authority client">>, "", 0)
        ELSE IF ~req.ok
        THEN Response(plan, FALSE, <<>>, <<"Invalid Certificate Request PEM">>, "", 0)
        ELSE IF HasError(b.diags)
        THEN Response(plan, FALSE, <<>>, b.diags, "", 0)
        ELSE IF ~IsUnknown(b.m.early_renewal_period) /\ ~p.ok
        THEN Response(plan, FALSE, <<>>, <<"Invalid Validity Period">>, "", 0)
        ELSE IF InvalidEarlyRenewalPeriod(erp, b.opts.Duration)
        THEN Response(plan, FALSE, <<>>, <<"Invalid Early Renewal Period">>, "", 0)
        ELSE IF SignError(sign)
        THEN Response(plan, FALSE, <<sign>>, <<"Error Signing">>, "", 0)
        ELSE Response(saveCertificate(data, cert, erp, timeNow + env.latency),
                      TRUE, <<sign>>, <<>>, "", env.latency)

(***************************************************************************)
(* Read                                                                    *)
(***************************************************************************)
Read(stored, env, n, timeNow) ==
    LET c == sslAuthorityClient(stored)
        na == ParseRFC3339(ValueString(stored.validity_not_after))
        p == ParseDuration(ValueString(stored.early_renewal_period))
        erp == IF ~IsNull(stored.early_renewal_period) THEN p.d ELSE 0
        diags0 == IF ~IsNull(stored.early_renewal_period) /\ ~p.ok
                  THEN <<"Invalid Validity Period">> ELSE <<>>
        renewal == readyForRenewal(na.t, erp, timeNow)
        req == csr(ValueString(stored.cert_request_pem))
        b == buildSignOptions(stored, diags0)
        sign == SignCall(c, req.bytes, b.opts, env)
        cert == Certificate(n + 1, timeNow, b.opts)
    IN  IF ~c.ok
        THEN Response(stored, FALSE, <<>>, <<"Error creating SSL authority client">>, "", 0)
        ELSE IF ~na.ok
        THEN Response(stored, FALSE, <<>>, <<"Invalid Internal State">>, "", 0)
        ELSE IF IsUnknown(stored.early_renewal_period)
        THEN Response(stored, FALSE, <<>>, <<"Invalid Internal State">>, "", 0)
        ELSE IF renewal
        THEN IF ~req.ok
             THEN Response(stored, FALSE, <<>>,
                           AddError(diags0, "Invalid Certificate Request PEM"), "renew", 0)
             ELSE IF HasError(b.diags)
             THEN Response(stored, FALSE, <<>>, b.diags, "renew", 0)
             ELSE IF SignError(sign)
             THEN Response(stored, FALSE, <<sign>>,
                           AddError(b.diags, "Error Renewing Certificate"), "renew", 0)
             ELSE Response(saveCertificate(b.m, cert, erp, timeNow + env.latency),
                           TRUE, <<sign>>, b.diags, "renew", env.latency)
        ELSE Response([stored EXCEPT !.ready_for_renewal = BoolValue(renewal)],
                      TRUE, <<>>, diags0, "carry", 0)

(***************************************************************************)
(* Update.  The three branches that follow validation are UpdateReplace    *)
(* (an identity-affecting field differs), UpdateRenew (none differs, the   *)
(* certificate is ready for renewal) and UpdateCarry (none differs, not    *)
(* ready).                                                                 *)
(***************************************************************************)
\* mutant: the old certificate is revoked through the client of the new
\* configuration
UpdateReplaceRevokesOnNewClient(newm, oldm, csrDer, signOptions, erp, env, n, timeNow) ==
    LET c == sslAuthorityClient(newm)
        thumb == HexDecodeString(ValueString(oldm.cert_thumbprint_hex))
        revoke == RevokeCall(c, thumb.bytes, env)
        diags == IF revoke.ok THEN <<>> ELSE <<"Error Revoking Certificate">>
        sign == SignCall(c, csrDer, signOptions, env)
        cert == Certificate(n + 1, timeNow, signOptions)
    IN  IF ~c.ok \/ ~thumb.ok \/ thumb.bytes.n < 20
        THEN Response(newm, FALSE, <<>>, <<"Error creating SSL authority client">>, "replace", 0)
        ELSE IF SignError(sign)
        THEN Response(newm, FALSE, RevokeThenSign(revoke, sign),
                      AddError(diags, "Error Signing"), "replace", 0)
        ELSE Response(saveCertificate(newm, cert, erp, timeNow + env.latency),
                      TRUE, RevokeThenSign(revoke, sign), diags, "replace", env.latency)

\* mutant: a failed Revoke ends the replace branch
UpdateReplaceStopsOnRevokeError(newm, oldm, csrDer, signOptions, erp, env, n, timeNow) ==
    LET c == sslAuthorityClient(oldm)
        thumb == HexDecodeString(ValueString(oldm.cert_thumbprint_hex))
        revoke == RevokeCall(c, thumb.bytes, env)
        c2 == sslAuthorityClient(newm)
        sign == SignCall(c2, csrDer, signOptions, env)
        cert == Certificate(n + 1, timeNow, signOptions)
    IN  IF ~c.ok \/ ~thumb.ok \/ thumb.bytes.n < 20 \/ ~c2.ok
        THEN Response(newm, FALSE, <<>>, <<"Error creating SSL authority client">>, "replace", 0)
        ELSE IF ~revoke.ok
        THEN Response(newm, FALSE, <<revoke>>, <<"Error Revoking Certificate">>, "replace", 0)
        ELSE IF SignError(sign)
        THEN Response(newm, FALSE, RevokeThenSign(revoke, sign),
                      <<"Error Signing">>, "replace", 0)
        ELSE Response(saveCertificate(newm, cert, erp, timeNow + env.latency),
                      TRUE, RevokeThenSign(revoke, sign), <<>>, "replace", env.latency)

UpdateReplace(newm, oldm, csrDer, signOptions, erp, env, n, timeNow) ==
    LET c == sslAuthorityClient(oldm)
        thumb == HexDecodeString(ValueString(oldm.cert_thumbprint_hex))
        revoke == RevokeCall(c, thumb.bytes, env)
        diags == IF revoke.ok THEN <<>> ELSE <<"Error Revoking Certificate">>
        c2 == sslAuthorityClient(newm)
        sign == SignCall(c2, csrDer, signOptions, env)
        cert == Certificate(n + 1, timeNow, signOptions)
    IN  IF ~c.ok
        THEN Response(newm, FALSE, <<>>, <<"Error creating SSL authority client">>, "replace", 0)
        ELSE IF ~thumb.ok
        THEN Response(newm, FALSE, <<>>, <<"Invalid Certificate Thumbprint">>, "replace", 0)
        ELSE IF thumb.bytes.n < 20
        THEN Panic(newm, <<>>, <<>>, "replace")
        ELSE IF ~c2.ok
        THEN Response(newm, FALSE, <<revoke>>,
                      AddError(diags, "Error creating SSL authority client"), "replace", 0)
        ELSE IF SignError(sign)
        THEN Response(newm, FALSE, RevokeThenSign(revoke, sign),
                      AddError(diags, "Error Signing"), "replace", 0)
        ELSE Response(saveCertificate(newm, cert, erp, timeNow + env.latency),
                      TRUE, RevokeThenSign(revoke, sign), diags, "replace", env.latency)

\* mutant: the certificate is renewed without revoking the old one
UpdateRenewWithoutRevoke(newm, oldm, csrDer, signOptions, erp, env, n, timeNow) ==
    LET c == sslAuthorityClient(newm)
        sign == SignCall(c, csrDer, signOptions, env)
        cert == Certificate(n + 1, timeNow, signOptions)
    IN  IF ~c.ok
        THEN Response(newm, FALSE, <<>>, <<"Error creating SSL authority client">>, "renew", 0)
        ELSE IF SignError(sign)
        THEN Response(newm, FALSE, <<sign>>, <<"Error Renewing Certificate">>, "renew", 0)
        ELSE Response(saveCertificate(newm, cert, erp, timeNow + env.latency),
                      TRUE, <<sign>>, <<>>, "renew", env.latency)

UpdateRenew(newm, oldm, csrDer, signOptions, erp, env, n, timeNow) ==
    LET c == sslAuthorityClient(newm)
        thumb == HexDecodeString(ValueString(oldm.cert_thumbprint_hex))
        revoke == RevokeCall(c, thumb.bytes, env)
        diags == IF revoke.ok THEN <<>> ELSE <<"Error Revoking Certificate">>
        sign == SignCall(c, csrDer, signOptions, env)
        cert == Certificate(n + 1, timeNow, signOptions)
    IN  IF ~c.ok
        THEN Response(newm, FALSE, <<>>, <<"Error creating SSL authority client">>, "renew", 0)
        ELSE IF ~thumb.ok
        THEN Response(newm, FALSE, <<>>, <<"Invalid Certificate Thumbprint">>, "renew", 0)
        ELSE IF thumb.bytes.n < 20
        THEN Panic(newm, <<>>, <<>>, "renew")
        ELSE IF SignError(sign)
        THEN Response(newm, FALSE, RevokeThenSign(revoke, sign),
                      AddError(diags, "Error Renewing Certificate"), "renew", 0)
        ELSE Response(saveCertificate(newm, cert, erp, timeNow + env.latency),
                      TRUE, RevokeThenSign(revoke, sign), diags, "renew", env.latency)

\* mutant: the thumbprint is not carried over from the prior state
UpdateCarryNoThumbprint(newm, oldm) ==
    Response([newm EXCEPT
                 !.cert_pem = StringValue(ValueString(oldm.cert_pem)),
                 !.cert_thumbprint_hex = StringValue(ValueString(newm.cert_thumbprint_hex)),
                 !.cert_serial_number = StringValue(ValueString(oldm.cert_serial_number)),
                 !.ready_for_renewal = BoolValue(FALSE),
                 !.validity_not_before = StringValue(ValueString(oldm.validity_not_before)),
                 !.validity_not_after = StringValue(ValueString(oldm.validity_not_after))],
             TRUE, <<>>, <<>>, "carry", 0)

\* mutant: the flag of the prior state is carried over with the certificate
UpdateCarryKeepsReady(newm, oldm) ==
    Response([newm EXCEPT
                 !.cert_pem = StringValue(ValueString(oldm.cert_pem)),
                 !.cert_thumbprint_hex = StringValue(ValueString(oldm.cert_thumbprint_hex)),
                 !.cert_serial_number = StringValue(ValueString(oldm.cert_serial_number)),
                 !.ready_for_renewal = oldm.ready_for_renewal,
                 !.validity_not_before = StringValue(ValueString(oldm.validity_not_before)),
                 !.validity_not_after = StringValue(ValueString(oldm.validity_not_after))],
             TRUE, <<>>, <<>>, "carry", 0)

UpdateCarry(newm, oldm) ==
    Response([newm EXCEPT
                 !.cert_pem = StringValue(ValueString(oldm.cert_pem)),
                 !.cert_thumbprint_hex = StringValue(ValueString(oldm.cert_thumbprint_hex)),
                 !.cert_serial_number = StringValue(ValueString(oldm.cert_serial_number)),
                 !.ready_for_renewal = BoolValue(FALSE),
                 !.validity_not_before = StringValue(ValueString(oldm.validity_not_before)),
                 !.validity_not_after = StringValue(ValueString(oldm.validity_not_after))],
             TRUE, <<>>, <<>>, "carry", 0)

Update(plan, oldm, env, n, timeNow) ==
    LET req == csr(ValueString(plan.cert_request_pem))
        b == buildSignOptions(plan, <<>>)
        p == ParseDuration(ValueString(b.m.early_renewal_period))
        erp == IF ~IsUnknown(b.m.early_renewal_period) THEN p.d ELSE 0
        newm == IF ~IsUnknown(b.m.early_renewal_period) THEN b.m
                ELSE [b.m EXCEPT !.early_renewal_period = StringNull]
        na == ParseRFC3339(ValueString(oldm.validity_not_after))
    IN  IF ~req.ok
        THEN Response(plan, FALSE, <<>>, <<"Invalid Certificate Request PEM">>, "", 0)
        ELSE IF HasError(b.diags)
        THEN Response(plan, FALSE, <<>>, b.diags, "", 0)
        ELSE IF ~IsUnknown(b.m.early_renewal_period) /\ ~p.ok
        THEN Response(plan, FALSE, <<>>, <<"Invalid Validity Period">>, "", 0)
        ELSE IF InvalidEarlyRenewalPeriod(erp, b.opts.Duration)
        THEN Response(plan, FALSE, <<>>, <<"Invalid Early Renewal Period">>, "", 0)
        ELSE IF requireNewCertificate(newm, oldm)
        THEN UpdateReplace(newm, oldm, req.bytes, b.opts, erp, env, n, timeNow)
        ELSE IF ~na.ok
        THEN Response(newm, FALSE, <<>>, <<"Invalid Internal State">>, "keep", 0)
        ELSE IF readyForRenewal(na.t, erp, timeNow)
        THEN UpdateRenew(newm, oldm, req.bytes, b.opts, erp, env, n, timeNow)
        ELSE UpdateCarry(newm, oldm)

(***************************************************************************)
(* Delete.  The handler never touches the response state: the framework    *)
(* removes the resource once the handler returns without an error          *)
(* diagnostic.                                                             *)
(***************************************************************************)
Delete(data, env) ==
    LET c == sslAuthorityClient(data)
        thumb == HexDecodeString(ValueString(data.cert_thumbprint_hex))
        revoke == RevokeCall(c, thumb.bytes, env)
    IN  IF ~c.ok
        THEN Response(data, FALSE, <<>>, <<"Error creating SSL authority client">>, "", 0)
        ELSE IF ~thumb.ok
        THEN Response(data, FALSE, <<>>, <<"Invalid Certificate Thumbprint">>, "", 0)
        ELSE IF thumb.bytes.n < 20
        THEN Panic(data, <<>>, <<>>, "")
        ELSE Response(data, FALSE, <<revoke>>,
                      IF revoke.ok THEN <<>> ELSE <<"Error Revoking Certificate">>, "", 0)

(***************************************************************************)
(* Plans: the resource model Terraform hands to Create and Update.  An     *)
(* optional attribute the configuration leaves out is unknown in the plan, *)
(* and so is every computed attribute.  The plans are BasePlan (the        *)
(* configuration of the acceptance test) with one identity-affecting       *)
(* attribute changed, or with both subject names, under two early renewal  *)
(* periods, and BasePlan under every early renewal period.                 *)
(***************************************************************************)
BasePlan ==
    [authority_id |-> StringValue(AuthorityA),
     template_id |-> StringValue(TemplateT),
     cert_request_pem |-> StringValue("CSR-A-PEM"),
     validity_period |-> StringValue("2h"),
     key_usages |-> ListUnknown,
     extended_key_usages |-> ListUnknown,
     overwrite_subject_name |-> SubjectNameObjectUnknown,
     overwrite_subject_name_str |-> StringUnknown,
     additional_subject_alternative_names |->
         ObjectValue([SanNullAttrs EXCEPT !.dns_names = ListValue(<<"test.com">>)]),
     early_renewal_period |-> StringValue("0"),
     cert_pem |-> StringUnknown,
     cert_thumbprint_hex |-> StringUnknown,
     cert_serial_number |-> StringUnknown,
     ready_for_renewal |-> BoolUnknown,
     validity_not_before |-> StringUnknown,
     validity_not_after |-> StringUnknown]

StructuralName ==
    ObjectValue([SubjectNameNullAttrs EXCEPT
                    !.common_name = StringValue("Test 101"),
                    !.organization = ListValue(<<"Keytos">>)])

IdentityPlans ==
    {BasePlan}
    \cup {[BasePlan EXCEPT !.authority_id = StringValue(x)] : x \in {AuthorityB, "not-a-uuid"}}
    \cup {[BasePlan EXCEPT !.template_id = StringValue("not-a-uuid")]}
    \cup {[BasePlan EXCEPT !.cert_request_pem = StringValue(x)] :
             x \in {"CSR-B-PEM", "PRIVATE-KEY-PEM", "garbage"}}
    \cup {[BasePlan EXCEPT !.validity_period = StringValue(x)] : x \in {"2h0m0s", "3h", "bogus"}}
    \cup {[BasePlan EXCEPT !.key_usages = ListValue(x)] :
             x \in {<<>>, <<"KeyEncipherment", "DigitalSignature">>,
                    <<"DigitalSignature", "KeyEncipherment">>}}
    \cup {[BasePlan EXCEPT !.extended_key_usages = ListValue(<<"ServerAuth">>)]}
    \cup {[BasePlan EXCEPT !.overwrite_subject_name = StructuralName]}
    \cup {[BasePlan EXCEPT !.overwrite_subject_name_str = StringValue("CN=Test 101")]}
    \cup {[BasePlan EXCEPT !.overwrite_subject_name = StructuralName,
                           !.overwrite_subject_name_str = StringValue("CN=Test 101")]}
    \cup {[BasePlan EXCEPT !.additional_subject_alternative_names = x] :
             x \in {SanObjectUnknown,
                    ObjectValue([SanNullAttrs EXCEPT
                        !.ip_addresses = ListValue(<<"10.0.0.1", "bad-ip", "::1">>),
                        !.uris = ListValue(<<"%zz", "https://test.com/a">>)]),
                    ObjectValue([SanNullAttrs EXCEPT
                        !.ip_addresses = ListValue(<<"10.0.0.1">>),
                        !.uris = ListValue(<<"https://test.com/a">>)])}}

EarlyRenewalPeriods ==
    {StringUnknown} \cup {StringValue(x) : x \in {"0", "1h", "2h", "3h", "-1h", "bogus"}}

Plans ==
    {[BasePlan EXCEPT !.early_renewal_period = e] : e \in EarlyRenewalPeriods}
    \cup {[p EXCEPT !.early_renewal_period = StringValue(e)] :
             p \in IdentityPlans, e \in {"0", "1h"}}
    \cup {[BasePlan EXCEPT !.validity_period = StringValue("3h"),
                           !.early_renewal_period = StringValue("3h")]}

\* the attributes a configuration can set
ConfigAttributes ==
    {"authority_id", "template_id", "cert_request_pem", "validity_period", "key_usages",
     "extended_key_usages", "overwrite_subject_name", "overwrite_subject_name_str",
     "additional_subject_alternative_names", "early_renewal_period"}

\* what the signing service answers during one handler
Envs ==
    {[revokeOk |-> r, signOk |-> TRUE, latency |-> l, cancel |-> "none"] :
        r \in BOOLEAN, l \in 0 .. MaxSignLatency}
    \cup {[revokeOk |-> r, signOk |-> FALSE, latency |-> 0, cancel |-> "none"] :
             r \in BOOLEAN}
    \cup {[revokeOk |-> r, signOk |-> TRUE, latency |-> 0, cancel |-> "sign"] :
             r \in BOOLEAN}
    \cup {[revokeOk |-> TRUE, signOk |-> TRUE, latency |-> 0, cancel |-> "revoke"]}

(***************************************************************************)
(* The state machine.                                                      *)
(***************************************************************************)
\* no handler is running and no response is pending
Idle ==
    [op |-> "idle", at |-> 0, plan |-> <<>>, prior |-> <<>>,
     env |-> [revokeOk |-> TRUE, signOk |-> TRUE, latency |-> 0, cancel |-> "none"],
     resp |-> Response(BasePlan, FALSE, <<>>, <<>>, "", 0)]

Init ==
    /\ state = <<>>
    /\ now = 0
    /\ serial = 0
    /\ last = Idle

\* the effect of one handler invocation on the persisted state, the signing
\* service and the clock; Delete leaves the response state alone and the
\* framework removes the resource when there is no error diagnostic
Respond(op, plan, env, resp) ==
    /\ state' = IF op = "Delete"
                THEN IF HasError(resp.diags) \/ resp.panic THEN state ELSE <<>>
                ELSE IF resp.wrote THEN <<resp.m>> ELSE state
    /\ serial' = serial + Cardinality({i \in 1 .. Len(resp.calls) :
                                          resp.calls[i].fn = "Sign" /\ resp.calls[i].ok})
    /\ now' = now + resp.elapsed
    /\ last' = [op |-> op, at |-> now, plan |-> plan, prior |-> state,
                env |-> env, resp |-> resp]

\* handlers run one at a time: the next one starts after the response of
\* the previous one has been returned
CreateOp ==
    /\ last = Idle
    /\ state = <<>>
    /\ serial < MaxCerts
    /\ \E plan \in Plans, env \in Envs :
          /\ env.revokeOk /\ env.cancel # "revoke"
          /\ now + env.latency <= MaxTime
          /\ Respond("Create", <<plan>>, env, Create(plan, env, serial, now))

ReadOp ==
    /\ last = Idle
    /\ state # <<>>
    /\ serial < MaxCerts
    /\ \E env \in Envs :
          /\ env.revokeOk /\ env.cancel # "revoke"
          /\ now + env.latency <= MaxTime
          /\ Respond("Read", <<>>, env, Read(state[1], env, serial, now))

\* Terraform calls Update when the configuration sets an attribute to a
\* value other than the stored one
UpdateOp ==
    /\ last = Idle
    /\ state # <<>>
    /\ serial < MaxCerts
    /\ \E plan \in Plans, env \in Envs :
          /\ \E a \in ConfigAttributes : ~IsUnknown(plan[a]) /\ plan[a] # state[1][a]
          /\ now + env.latency <= MaxTime
          /\ Respond("Update", <<plan>>, env, Update(plan, state[1], env, serial, now))

DeleteOp ==
    /\ last = Idle
    /\ state # <<>>
    /\ \E env \in Envs :
          /\ env.signOk /\ env.latency = 0 /\ env.cancel # "sign"
          /\ Respond("Delete", <<>>, env, Delete(state[1], env))

\* the response is returned to Terraform
Return ==
    /\ last # Idle
    /\ last' = Idle
    /\ UNCHANGED <<state, now, serial>>

\* time passes between invocations
Tick ==
    /\ last = Idle
    /\ now < MaxTime
    /\ now' = now + 1
    /\ UNCHANGED <<state, serial, last>>

Next == CreateOp \/ ReadOp \/ UpdateOp \/ DeleteOp \/ Return \/ Tick

Spec == Init /\ [][Next]_vars

(***************************************************************************)
(* Handlers started on a record they did not write themselves.  Read,      *)
(* Update and Delete take the persisted record from req.State; StoredSpec  *)
(* starts them on a record that Create issued at hour 0 and in which one   *)
(* attribute was edited afterwards, at any later hour.                     *)
(***************************************************************************)
\* the record Create persists for plan when Sign takes latency hours
Issued(plan, latency) ==
    Create(plan, [revokeOk |-> TRUE, signOk |-> TRUE, latency |-> latency,
                  cancel |-> "none"], 0, 0).m

\* one attribute of record r replaced by a value the provider never writes
Edited(r) ==
    {r}
    \cup {[r EXCEPT !.cert_thumbprint_hex = StringValue(x)] :
             x \in {"not-hex", ShortThumbprint, LongThumbprint(1)}}
    \cup {[r EXCEPT !.validity_not_after = StringValue("not-a-timestamp")]}
    \cup {[r EXCEPT !.early_renewal_period = x] : x \in {StringValue("bogus"), StringUnknown}}

StoredInit ==
    /\ \E l \in 0 .. MaxSignLatency :
          /\ state \in {<<r>> : r \in
                 Edited(Issued(BasePlan, l))
                 \cup Edited(Issued([BasePlan EXCEPT !.early_renewal_period = StringValue("2h")], l))}
          /\ now \in l .. MaxTime
    /\ serial = 1
    /\ last = Idle

StoredSpec == StoredInit /\ [][Next]_vars

(***************************************************************************)
(* Vocabulary of the properties.  They are stated on the state in which a  *)
(* handler has just responded: last describes the invocation, last.prior   *)
(* is the persisted state it started from and state the one it left.       *)
(***************************************************************************)
Calls == last.resp.calls
CallsTo(fn) == {i \in 1 .. Len(Calls) : Calls[i].fn = fn}
Prior == last.prior[1]
Planned == last.plan[1]

IdentityAttributes == ConfigAttributes \ {"early_renewal_period"}
CertificateAttributes ==
    {"cert_pem", "cert_thumbprint_hex", "cert_serial_number",
     "validity_not_before", "validity_not_after"}

\* a planned attribute with the default or null an unset attribute gets
Filled(a) ==
    IF Planned[a].k # "unknown" THEN Planned[a]
    ELSE CASE a = "key_usages" -> ListValue(<<"KeyEncipherment", "DigitalSignature">>)
           [] a = "extended_key_usages" -> ListValue(<<"ServerAuth", "ClientAuth">>)
           [] a = "overwrite_subject_name" -> SubjectNameObjectNull
           [] a = "additional_subject_alternative_names" -> SanObjectNull
           [] OTHER -> StringNull

IdentityDiffers == \E a \in IdentityAttributes : Filled(a) # Prior[a]

\* Update got past the validation of the new configuration
UpdateDecided == last.op = "Update" /\ last.resp.path # ""

Hours(attr) == IF attr.k = "known" THEN ParseDuration(attr.v).d ELSE 0
PriorNotAfter == ParseRFC3339(Prior.validity_not_after.v).t

\* Revoke call i names the thumbprint of the prior state
RevokesPrior(i) ==
    /\ Calls[i].fn = "Revoke"
    /\ Prior.cert_thumbprint_hex = StringValue(HexEncodeToString(Sha1Sum(Calls[i].thumb)))

\* the persisted certificate attributes are those of the certificate that
\* the Sign call of this invocation returned
HoldsNewCertificate ==
    /\ state # <<>>
    /\ state[1].cert_pem = StringValue(PemEncodeCertificate(serial))
    /\ state[1].cert_thumbprint_hex = StringValue(HexEncodeToString(Sha1Sum(serial)))
    /\ state[1].cert_serial_number = StringValue(ToString(serial))
    /\ state[1].validity_not_before = StringValue(FormatRFC3339(last.at))
    /\ state[1].validity_not_after =
           StringValue(FormatRFC3339(last.at + Hours(state[1].validity_period)))

\* C1: in every Update that calls both Revoke and Sign, each Revoke names the
\* prior thumbprint and has returned before Sign is called
C1_RevokeBeforeSign ==
    last.op = "Update" =>
        \A i \in CallsTo("Revoke"), j \in CallsTo("Sign") : RevokesPrior(i) /\ i < j

C1_Witness ==
    /\ last.op = "Update"
    /\ last.resp.path = "replace"
    /\ CallsTo("Revoke") # {} /\ CallsTo("Sign") # {}
    /\ last.resp.wrote

\* C2: in the replace path of Update, when Revoke fails Sign is still
\* called, and when that Sign succeeds the new certificate is persisted and
\* the failed Revoke is the only diagnostic
C2_SignAfterFailedRevoke ==
    (/\ last.op = "Update"
     /\ last.resp.path = "replace"
     /\ \E i \in CallsTo("Revoke") : ~Calls[i].ok)
    => /\ CallsTo("Sign") # {}
       /\ (\E j \in CallsTo("Sign") : Calls[j].ok) =>
              /\ last.resp.wrote
              /\ HoldsNewCertificate
              /\ last.resp.diags = <<"Error Revoking Certificate">>

\* C3: a Sign call that returns an error leaves the persisted state as it
\* was: absent after Create, the prior record after Read and Update
C3_SignErrorWritesNothing ==
    (\E j \in CallsTo("Sign") : ~Calls[j].ok) =>
        /\ ~last.resp.wrote
        /\ state = last.prior
        /\ last.op = "Create" => state = <<>>

C3_Witness ==
    /\ last.op = "Update"
    /\ \E j \in CallsTo("Sign") : ~Calls[j].ok
    /\ state = last.prior /\ state # <<>>

\* C4: an Update that passes validation takes the replace path exactly when
\* an identity-affecting attribute of the new configuration, unset
\* attributes filled in, differs from the prior state; the early renewal
\* period does not count
C4_ReplaceIffIdentityDiffers ==
    UpdateDecided => (last.resp.path = "replace" <=> IdentityDiffers)

\* "2h0m0s" against a stored "2h" is a difference although both are two hours
C4_Witness ==
    /\ UpdateDecided
    /\ last.resp.path = "replace"
    /\ Planned.validity_period = StringValue("2h0m0s")
    /\ Prior.validity_period = StringValue("2h")
    /\ \A a \in IdentityAttributes \ {"validity_period"} : Filled(a) = Prior[a]

\* readiness of the prior certificate under the planned early renewal period
ReadyUnderPlanned == PriorNotAfter - Hours(Planned.early_renewal_period) < last.at

\* readiness of the stored certificate under the stored early renewal period
ReadyUnderStored == PriorNotAfter - Hours(Prior.early_renewal_period) < last.at

\* C5: an Update without identity change whose certificate is not ready for
\* renewal under the new early renewal period calls neither Revoke nor Sign
\* and carries the certificate attributes over with ready_for_renewal false
C5_CarryForward ==
    (UpdateDecided /\ ~IdentityDiffers /\ ~ReadyUnderPlanned) =>
        /\ Calls = <<>>
        /\ last.resp.wrote
        /\ \A a \in CertificateAttributes : state[1][a] = Prior[a]
        /\ state[1].ready_for_renewal = BoolValue(FALSE)

C5_Witness ==
    /\ UpdateDecided /\ ~IdentityDiffers /\ ~ReadyUnderPlanned
    /\ Planned.early_renewal_period # Prior.early_renewal_period
    /\ state[1].cert_thumbprint_hex = Prior.cert_thumbprint_hex

C7_ReadyIffStrictlyAfter ==
    /\ (last.op = "Read" /\ last.resp.path # "") =>
           (last.resp.path = "renew" <=> last.at > PriorNotAfter - Hours(Prior.early_renewal_period))
    /\ (last.resp.wrote /\ \E j \in CallsTo("Sign") : Calls[j].ok) =>
           (state[1].ready_for_renewal.v <=>
                now > ParseRFC3339(state[1].validity_not_after.v).t
                          - Hours(state[1].early_renewal_period))

\* a Read at the boundary instant finds the certificate not ready
C7_Witness ==
    /\ last.op = "Read"
    /\ last.at = PriorNotAfter - Hours(Prior.early_renewal_period)
    /\ last.resp.path = "carry"

\* C7 (as claimed): readyForRenewal is true exactly when
\* now >= notAfter - earlyRenewalPeriod
C7_ReadyIffNotBefore ==
    /\ (last.op = "Read" /\ last.resp.path # "") =>
           (last.resp.path = "renew" <=> last.at >= PriorNotAfter - Hours(Prior.early_renewal_period))
    /\ (last.resp.wrote /\ \E j \in CallsTo("Sign") : Calls[j].ok) =>
           (state[1].ready_for_renewal.v <=>
                now >= ParseRFC3339(state[1].validity_not_after.v).t
                           - Hours(state[1].early_renewal_period))

\* C8: a Read of a record that is ready for renewal, with the signing
\* service available, makes exactly one Sign call with the stored validity,
\* no Revoke call, and persists the new certificate
C8_ReadRenews ==
    (last.op = "Read" /\ ReadyUnderStored /\ last.env.signOk /\ last.env.cancel = "none") =>
        /\ Len(Calls) = 1
        /\ Calls[1].fn = "Sign"
        /\ Calls[1].opts.Duration = Hours(Prior.validity_period)
        /\ last.resp.wrote
        /\ HoldsNewCertificate

\* C9: a Read of a record that is not ready for renewal calls neither Sign
\* nor Revoke and writes the stored record back with ready_for_renewal false
C9_ReadNotReady ==
    (last.op = "Read" /\ ~ReadyUnderStored) =>
        /\ Calls = <<>>
        /\ last.resp.wrote
        /\ state = <<[Prior EXCEPT !.ready_for_renewal = BoolValue(FALSE)]>>

C9_Witness ==
    /\ last.op = "Read" /\ ~ReadyUnderStored
    /\ last.resp.wrote
    /\ last.at > 0
    /\ state[1].cert_thumbprint_hex = Prior.cert_thumbprint_hex

\* C10: Delete calls Revoke on the persisted thumbprint and the record is
\* absent afterwards whether Revoke succeeded or failed, a failure being
\* reported as a diagnostic
C10_DeleteCompletes ==
    last.op = "Delete" =>
        /\ Len(Calls) = 1
        /\ RevokesPrior(1)
        /\ ~Calls[1].ok => last.resp.diags = <<"Error Revoking Certificate">>
        /\ state = <<>>

\* both subject-name variants are populated in the model m
BothSubjectNames(m) ==
    m.overwrite_subject_name.k = "known" /\ m.overwrite_subject_name_str.k = "known"

\* the invocation made no service call and left the persisted state alone
Untouched ==
    /\ Calls = <<>>
    /\ ~last.resp.wrote
    /\ state = last.prior

\* C11: a configuration with both overwrite_subject_name and
\* overwrite_subject_name_str populated is rejected by buildSignOptions
\* (nil result, "Invalid Overwrite Subject Name"); Create, Read and Update
\* then make no Sign and no Revoke call and write no state
C11_BothSubjectNamesRejected ==
    /\ (last.op \in {"Create", "Update"} /\ BothSubjectNames(Planned)) =>
           /\ buildSignOptions(Planned, <<>>).ret
           /\ buildSignOptions(Planned, <<>>).diags = <<"Invalid Overwrite Subject Name">>
           /\ last.resp.diags = <<"Invalid Overwrite Subject Name">>
           /\ Untouched
    /\ (last.op = "Read" /\ BothSubjectNames(Prior)) => Untouched

C11_Witness ==
    /\ last.op = "Update"
    /\ BothSubjectNames(Planned)
    /\ state # <<>> /\ state = last.prior
    /\ last.resp.diags = <<"Invalid Overwrite Subject Name">>

\* the planned early renewal period and validity period both parse and the
\* former is strictly greater
PlannedRenewalExceedsValidity ==
    /\ Planned.early_renewal_period.k = "known"
    /\ ParseDuration(Planned.early_renewal_period.v).ok
    /\ ParseDuration(Planned.validity_period.v).ok
    /\ Hours(Planned.early_renewal_period) > Hours(Planned.validity_period)

\* C12: Create and Update, whether or not an identity-affecting attribute
\* changes, reject a configuration whose early_renewal_period is strictly
\* greater than its validity_period with an error diagnostic, before any
\* Revoke or Sign call and without writing state
C12_RenewalExceedsValidityRejected ==
    (last.op \in {"Create", "Update"} /\ PlannedRenewalExceedsValidity) =>
        /\ HasError(last.resp.diags)
        /\ last.resp.path = ""
        /\ Untouched
        /\ ~HasError(buildSignOptions(Planned, <<>>).diags) =>
               last.resp.diags = <<"Invalid Early Renewal Period">>

\* an Update that would otherwise revoke and replace the certificate
C12_Witness ==
    /\ last.op = "Update"
    /\ PlannedRenewalExceedsValidity
    /\ IdentityDiffers
    /\ last.resp.diags = <<"Invalid Early Renewal Period">>
    /\ state # <<>> /\ state = last.prior

\* C13: in every persisted state that Create, Read, Update and Delete can
\* reach, the stored early_renewal_period, zero when null, does not exceed
\* the stored validity_period
C13_StoredRenewalWithinValidity ==
    state # <<>> =>
        /\ ParseDuration(state[1].validity_period.v).ok
        /\ state[1].early_renewal_period.k = "null"
               \/ /\ state[1].early_renewal_period.k = "known"
                  /\ ParseDuration(state[1].early_renewal_period.v).ok
        /\ Hours(state[1].early_renewal_period) <= Hours(state[1].validity_period)

\* the equal case, reached by an Update that changed only the early renewal
\* period
C13_Witness ==
    /\ last.op = "Update"
    /\ last.resp.wrote
    /\ Hours(Prior.early_renewal_period) < Hours(state[1].early_renewal_period)
    /\ Hours(state[1].early_renewal_period) = Hours(state[1].validity_period)

\* the planned cert_request_pem holds no PEM block, or its first block is
\* not a certificate request
PlannedRequestMalformed ==
    LET b == PemDecode(ValueString(Planned.cert_request_pem))
    IN  ~b.ok \/ b.type # "CERTIFICATE REQUEST"

\* C14: a cert_request_pem that does not decode as a PEM block, or whose
\* first block is not of type CERTIFICATE REQUEST, is rejected with
\* "Invalid Certificate Request PEM"; Create and Update then make no Sign
\* and no Revoke call and write no state
C14_MalformedRequestRejected ==
    (last.op \in {"Create", "Update"} /\ PlannedRequestMalformed) =>
        /\ ~csr(ValueString(Planned.cert_request_pem)).ok
        /\ HasError(last.resp.diags)
        /\ (last.op = "Update" \/ sslAuthorityClient(Planned).ok) =>
               last.resp.diags = <<"Invalid Certificate Request PEM">>
        /\ Untouched

\* a private key in place of the request, on Update
C14_Witness ==
    /\ last.op = "Update"
    /\ PemDecode(ValueString(Planned.cert_request_pem)).type = "PRIVATE KEY"
    /\ last.resp.diags = <<"Invalid Certificate Request PEM">>
    /\ state # <<>> /\ state = last.prior

\* C15: after a successful Create or Update the persisted key_usages is
\* the ordered list [KeyEncipherment, DigitalSignature] when the
\* configuration leaves it unset, and extended_key_usages is
\* [ServerAuth, ClientAuth] when unset; a list that is given, the empty
\* list included, is persisted as given
C15_UsageDefaultsPersisted ==
    (last.op \in {"Create", "Update"} /\ last.resp.wrote) =>
        /\ state[1].key_usages =
               IF IsUnknown(Planned.key_usages)
               THEN ListValue(<<"KeyEncipherment", "DigitalSignature">>)
               ELSE Planned.key_usages
        /\ state[1].extended_key_usages =
               IF IsUnknown(Planned.extended_key_usages)
               THEN ListValue(<<"ServerAuth", "ClientAuth">>)
               ELSE Planned.extended_key_usages

\* an explicit empty key_usages next to an unset extended_key_usages
C15_Witness ==
    /\ last.op = "Create"
    /\ last.resp.wrote
    /\ Planned.key_usages = ListValue(<<>>)
    /\ state[1].key_usages = ListValue(<<>>)
    /\ IsUnknown(Planned.extended_key_usages)
    /\ state[1].extended_key_usages = ListValue(<<"ServerAuth", "ClientAuth">>)

\* the elements of a Go slice as a set; a nil slice has none
SliceSet(sl) == {sl.v[i] : i \in 1 .. Len(sl.v)}

\* C16: when key_usages is unset the options passed to Sign contain the key
\* usages {KeyEncipherment, DigitalSignature}, when extended_key_usages is
\* unset they contain {ServerAuth, ClientAuth}, and the options used at
\* Create equal the options rebuilt from the state that Create persisted
C16_DefaultUsagesSentToSign ==
    /\ last.op \in {"Create", "Update"} =>
           \A j \in CallsTo("Sign") :
               /\ IsUnknown(Planned.key_usages) =>
                      SliceSet(Calls[j].opts.KeyUsages) = {"KeyEncipherment", "DigitalSignature"}
               /\ IsUnknown(Planned.extended_key_usages) =>
                      SliceSet(Calls[j].opts.ExtendedKeyUsages) = {"ServerAuth", "ClientAuth"}
    /\ (last.op = "Create" /\ last.resp.wrote) =>
           buildSignOptions(state[1], <<>>).opts = Calls[1].opts

\* the stored thumbprint is no hex string or does not decode to 20 bytes
PriorThumbprintMalformed ==
    LET thumb == HexDecodeString(ValueString(Prior.cert_thumbprint_hex))
    IN  ~thumb.ok \/ thumb.bytes.n # 20

\* the invocation reached a place where the stored thumbprint is decoded
Revoking ==
    \/ last.op = "Update" /\ last.resp.path \in {"replace", "renew"}
    \/ last.op = "Delete"

\* C17: in the revoking paths of Update and in Delete, a stored
\* cert_thumbprint_hex that is no valid hex or does not decode to exactly
\* 20 bytes is reported as "Invalid Certificate Thumbprint": the handler
\* does not crash, calls neither Revoke nor Sign and writes no state
C17_MalformedThumbprintRejected ==
    (Revoking /\ PriorThumbprintMalformed) =>
        /\ ~last.resp.panic
        /\ last.resp.diags = <<"Invalid Certificate Thumbprint">>
        /\ Untouched

\* the diagnostics that report a malformed UUID, duration, PEM, subject
\* name pair, IP address, URI or thumbprint
ValidationErrors ==
    {"Error creating SSL authority client", "Invalid Duration String",
     "Invalid Validity Period", "Invalid Early Renewal Period",
     "Invalid Certificate Request PEM", "Invalid Overwrite Subject Name",
     "Invalid Subject Alternative Name", "Invalid Certificate Thumbprint"}

ValidationErrorRaised ==
    \E i \in 1 .. Len(last.resp.diags) : last.resp.diags[i] \in ValidationErrors

\* C18: once Create, Read, Update or Delete has raised a validation error
\* it writes no state; a Read whose stored early_renewal_period does not
\* parse as a duration leaves the persisted record, ready_for_renewal
\* included, as it was
C18_ValidationErrorWritesNothing ==
    /\ ValidationErrorRaised => (~last.resp.wrote /\ state = last.prior)
    /\ (/\ last.op = "Read"
        /\ Prior.early_renewal_period.k = "known"
        /\ ~ParseDuration(Prior.early_renewal_period.v).ok)
       => (ValidationErrorRaised /\ ~last.resp.wrote /\ state = last.prior)

\* the stored validity_not_after is no RFC3339 timestamp
PriorNotAfterUnparsable ==
    \A t \in Times : Prior.validity_not_after # StringValue(FormatRFC3339(t))

\* C19: a Read whose stored validity_not_after does not parse or whose
\* stored early_renewal_period is unknown, and an Update without identity
\* change whose stored validity_not_after does not parse, fail with
\* "Invalid Internal State", call neither Sign nor Revoke and leave the
\* persisted record unchanged
C19_CorruptedStateRejected ==
    /\ (/\ last.op = "Read"
        /\ PriorNotAfterUnparsable \/ IsUnknown(Prior.early_renewal_period))
       => (last.resp.diags = <<"Invalid Internal State">> /\ Untouched)
    /\ (UpdateDecided /\ ~IdentityDiffers /\ PriorNotAfterUnparsable)
       => (last.resp.diags = <<"Invalid Internal State">> /\ Untouched)

\* an Update that changes only the early renewal period of such a record
C19_Witness ==
    /\ UpdateDecided /\ ~IdentityDiffers /\ PriorNotAfterUnparsable
    /\ Planned.early_renewal_period # Prior.early_renewal_period
    /\ last.resp.diags = <<"Invalid Internal State">>
    /\ state = last.prior

\* C20: the record persisted by a successful Create or Update has
\* ready_for_renewal false, for every configuration that passes validation
\* (early_renewal_period equal to validity_period included), so that a Read
\* right afterwards does not call Sign
C20_IssuedNotReady ==
    (last.op \in {"Create", "Update"} /\ last.resp.wrote) =>
        /\ state[1].ready_for_renewal = BoolValue(FALSE)
        /\ Read(state[1], [revokeOk |-> TRUE, signOk |-> TRUE, latency |-> 0,
                          cancel |-> "none"], serial, now).calls = <<>>

\* C21: whatever early_renewal_period the provider accepted, negative ones
\* included, readiness evaluated after the certificate's validity_not_after
\* is true: Read and an Update without identity change find an expired
\* certificate ready for renewal
C21_ExpiredIsReady ==
    /\ (last.op = "Read" /\ last.resp.path # "" /\ last.at > PriorNotAfter) =>
           last.resp.path = "renew"
    /\ (UpdateDecided /\ ~IdentityDiffers /\ last.resp.path # "keep"
            /\ last.at > PriorNotAfter) =>
           last.resp.path = "renew"

\* C22: when the caller cancels the context while a Sign call of Create,
\* Read or Update is outstanding, the operation writes no state and the
\* prior record stays; when it cancels while the Revoke call of Update is
\* outstanding, the operation ends with the persisted record as it was
C22_CancellationWritesNothing ==
    /\ (last.env.cancel = "sign" /\ CallsTo("Sign") # {}) =>
           (~last.resp.wrote /\ state = last.prior)
    /\ (last.op = "Update" /\ last.env.cancel = "revoke" /\ CallsTo("Revoke") # {}) =>
           (~last.resp.wrote /\ state = last.prior)

\* cancelled during the Revoke of a replacing Update, which went on to Sign
C22_Witness ==
    /\ last.op = "Update"
    /\ last.resp.path = "replace"
    /\ last.env.cancel = "revoke"
    /\ Len(Calls) = 2 /\ ~Calls[1].ok /\ ~Calls[2].ok
    /\ state # <<>> /\ state = last.prior

\* C23: an Update that ends with a validation error on the new
\* configuration (CSR PEM, durations, subject names, SAN entries, early
\* renewal bound, authority_id and template_id) has made no Revoke call
C23_ValidationBeforeRevoke ==
    (/\ last.op = "Update"
     /\ \E i \in 1 .. Len(last.resp.diags) :
            last.resp.diags[i] \in ValidationErrors \ {"Invalid Certificate Thumbprint"})
    => CallsTo("Revoke") = {}

\* the Update that has just responded, run again on the persisted record at
\* hour t under the service behaviour env
Rerun(env, t) == Update(Planned, state[1], env, serial, t)

PlannedIPs == Elements(Planned.additional_subject_alternative_names.v.ip_addresses)
PlannedURIs == Elements(Planned.additional_subject_alternative_names.v.uris)
DiagCount(d) == Cardinality({i \in 1 .. Len(last.resp.diags) : last.resp.diags[i] = d})

\* C25: buildSignOptions parses every entry of ip_addresses and of uris on
\* its own: each unparsable entry adds one "Invalid Subject Alternative
\* Name", each parsable entry is appended to the options in its original
\* order, both lists are processed to the end, and with at least one such
\* error the calling operation makes no Sign call
C25_SanEntriesParsedIndependently ==
    (/\ last.op \in {"Create", "Update"}
     /\ Planned.additional_subject_alternative_names.k = "known"
     /\ ~buildSignOptions(Planned, <<>>).ret)
    => LET b == buildSignOptions(Planned, <<>>)
           badIPs == {i \in 1 .. Len(PlannedIPs) : ~ParseIP(PlannedIPs[i]).ok}
           badURIs == {i \in 1 .. Len(PlannedURIs) : ~UrlParse(PlannedURIs[i]).ok}
       IN  /\ b.opts.IPAddresses.v = SelectSeq(PlannedIPs, LAMBDA x : ParseIP(x).ok)
           /\ b.opts.URIs.v = SelectSeq(PlannedURIs, LAMBDA x : UrlParse(x).ok)
           /\ Len(b.diags) = Cardinality(badIPs) + Cardinality(badURIs)
           /\ (badIPs \cup badURIs # {}) =>
                  /\ DiagCount("Invalid Subject Alternative Name") =
                         Cardinality(badIPs) + Cardinality(badURIs)
                  /\ Untouched

\* a bad address between two good ones and a bad URI before a good one
C25_Witness ==
    /\ last.op = "Update"
    /\ Planned.additional_subject_alternative_names.k = "known"
    /\ PlannedIPs = <<"10.0.0.1", "bad-ip", "::1">>
    /\ PlannedURIs = <<"%zz", "https://test.com/a">>
    /\ last.resp.diags = <<"Invalid Subject Alternative Name", "Invalid Subject Alternative Name">>
    /\ buildSignOptions(Planned, <<>>).opts.IPAddresses.v = <<"10.0.0.1", "::1">>
    /\ state # <<>> /\ state = last.prior

\* call i went through a client bound to the authority and template of m
BoundTo(i, m) ==
    /\ Calls[i].authority = ValueString(m.authority_id)
    /\ Calls[i].template = ValueString(m.template_id)

\* C26: in the replace path of Update the Revoke call goes through a client
\* bound to the authority_id and template_id of the prior state and the
\* Sign call through a client bound to those of the new configuration
C26_RevokeOnOldSignOnNew ==
    (last.op = "Update" /\ last.resp.path = "replace") =>
        /\ \A i \in CallsTo("Revoke") : BoundTo(i, Prior)
        /\ \A j \in CallsTo("Sign") : BoundTo(j, Planned)

\* the authority changes: Revoke on the old one, Sign on the new one
C26_Witness ==
    /\ last.op = "Update" /\ last.resp.path = "replace"
    /\ Prior.authority_id # Planned.authority_id
    /\ Len(Calls) = 2
    /\ Calls[1].fn = "Revoke" /\ Calls[1].authority = AuthorityA
    /\ Calls[2].fn = "Sign" /\ Calls[2].authority = AuthorityB
    /\ last.resp.wrote

\* the certificate attributes of record r are those of certificate n
DescribesCertificate(r, n) ==
    /\ r.cert_pem = StringValue(PemEncodeCertificate(n))
    /\ r.cert_thumbprint_hex = StringValue(HexEncodeToString(Sha1Sum(n)))
    /\ r.cert_serial_number = StringValue(ToString(n))
    /\ HexDecodeString(r.cert_thumbprint_hex.v) = [ok |-> TRUE, bytes |-> Sha1Sum(n)]

\* C27: in every state that Create, Read and Update persist, the
\* thumbprint is the hex SHA-1 of the certificate held in cert_pem, serial
\* number and validity bounds belong to that certificate, the thumbprint
\* decodes to 20 bytes, and no Update or Delete on such state fails
\* thumbprint validation
C27_ThumbprintOfStoredCertificate ==
    /\ state # <<>> =>
           /\ \E n \in 1 .. serial : DescribesCertificate(state[1], n)
           /\ ParseRFC3339(state[1].validity_not_before.v).ok
           /\ ParseRFC3339(state[1].validity_not_after.v).ok
           /\ ParseRFC3339(state[1].validity_not_after.v).t
                  - ParseRFC3339(state[1].validity_not_before.v).t
              = Hours(state[1].validity_period)
    /\ (last.resp.wrote /\ last.prior # <<>>) =>
           \/ HoldsNewCertificate
           \/ \A a \in CertificateAttributes : state[1][a] = Prior[a]
    /\ ~last.resp.panic
    /\ \A i \in 1 .. Len(last.resp.diags) :
           last.resp.diags[i] # "Invalid Certificate Thumbprint"

\* a Delete that revokes the thumbprint of a certificate an Update issued
C27_Witness ==
    /\ last.op = "Delete"
    /\ serial >= 2
    /\ DescribesCertificate(Prior, serial)
    /\ Len(Calls) = 1 /\ RevokesPrior(1) /\ Calls[1].ok
    /\ state = <<>>

\* C28: every record that Create, Read or Update writes stores a
\* ready_for_renewal equal to the renewal clock evaluated at the time of
\* the write on the validity_not_after and the early_renewal_period of that
\* same record
C28_ReadyFlagFresh ==
    last.resp.wrote =>
        state[1].ready_for_renewal =
            BoolValue(ParseRFC3339(state[1].validity_not_after.v).t
                          - Hours(state[1].early_renewal_period) < now)

\* an Update that shortens the early renewal period of a certificate stored
\* as ready: the certificate is carried over, the flag is not
C28_Witness ==
    /\ last.op = "Update" /\ last.resp.path = "carry"
    /\ Prior.ready_for_renewal = BoolValue(TRUE)
    /\ state[1].ready_for_renewal = BoolValue(FALSE)
    /\ state[1].validity_not_after = Prior.validity_not_after

\* C29: provided every Revoke call succeeds, at most one issued certificate
\* is unexpired and unrevoked.  Every certificate that Sign issues becomes
\* the persisted one; when it replaces a persisted certificate, that one
\* has expired or a Revoke for its thumbprint was made before the Sign
\* call; and Delete drops the record only after revoking its certificate
C29_OneLiveCertificate ==
    (\A i \in CallsTo("Revoke") : Calls[i].ok) =>
        /\ \A j \in CallsTo("Sign") :
               Calls[j].ok =>
                   /\ last.resp.wrote
                   /\ HoldsNewCertificate
                   /\ last.prior # <<>> =>
                          \/ last.at > PriorNotAfter
                          \/ \E i \in CallsTo("Revoke") : i < j /\ RevokesPrior(i)
        /\ (last.op = "Delete" /\ state = <<>>) =>
               \E i \in CallsTo("Revoke") : RevokesPrior(i)
        /\ last.op = "Create" => last.prior = <<>>

\* a renewal inside the early renewal window: the old certificate has not
\* expired and is revoked before the new one is signed
C29_Witness ==
    /\ last.op = "Update" /\ last.resp.path = "renew"
    /\ last.at < PriorNotAfter
    /\ Len(Calls) = 2
    /\ RevokesPrior(1) /\ Calls[1].ok
    /\ Calls[2].fn = "Sign" /\ Calls[2].ok
    /\ HoldsNewCertificate

\* C30: buildSignOptions on a persisted record in which exactly one
\* subject-name variant is populated and the other is null reports no
\* error and returns options carrying the populated subject name
C30_SingleSubjectNameAccepted ==
    state # <<>> =>
        LET b == buildSignOptions(state[1], <<>>)
        IN  /\ (/\ state[1].overwrite_subject_name.k = "known"
                /\ state[1].overwrite_subject_name_str.k = "null")
               => (~HasError(b.diags) /\ ~b.ret /\ b.opts.SubjectName # "")
            /\ (/\ state[1].overwrite_subject_name.k = "null"
                /\ state[1].overwrite_subject_name_str.k = "known")
               => /\ ~HasError(b.diags) /\ ~b.ret
                  /\ b.opts.SubjectName = state[1].overwrite_subject_name_str.v

====
